---- MODULE Spec2Model ----
(***************************************************************************)
(* Model of the live speech-segmentation engine (whisper_live.py) and of   *)
(* the orchestration loop that drives it (mira.py).                        *)
(*                                                                         *)
(* Time is the value of time.perf_counter() in integer milliseconds.       *)
(* A frame is what stream.read returned: its byte length and what the      *)
(* voice activity classifier does with it (speech, non-speech, raises).    *)
(* The sentence buffer is the sequence of the frames appended to it; its   *)
(* byte length is the sum of their lengths.                                *)
(***************************************************************************)
EXTENDS Integers, Sequences, FiniteSets, TLC

\* ---------- Constants (whisper_live.py:34-39) ----------
SAMPLE_RATE == 16000
FRAME_MS == 30
FRAME_BYTES == ((SAMPLE_RATE * FRAME_MS) \div 1000) * 2
\* MAX_SILENCE_BREAK = 0.6 seconds, in milliseconds
MAX_SILENCE_BREAK == 600

\* ---------- Bounds of the model ----------
\* the clock stops advancing past this many milliseconds
MaxClock == 1200
\* the sentence buffer holds at most this many frames
MaxFrames == 5
\* longest run of non-speech frames in a scripted scenario
MaxSilenceRun == 22

VARIABLES
    enabled,              \* whisper_live.enabled
    stream,               \* device handles: "none", "open", "closed"
    silence_start,        \* whisper_live.silence_start, -1 when unset
    did_speak,            \* whisper_live.did_speak
    sentence_buf,         \* mira.sentence_buf
    is_sentence_complete, \* mira.is_sentence_complete, flag of the last step
    pc,                   \* position of the main loop: "loop", "step", "post"
    clock,                \* time.perf_counter() at the last step, in ms
    frame,                \* the frame the last step read
    last_op,              \* the operation that ran last
    handed_off,           \* sentence_buf is a buffer that was already posted
    speech_seen,          \* a speech frame was classified since start/reset
    last_kind,            \* classification of the latest non-dropped frame
    non_dropped,          \* non-dropped frames since sentence_buf was empty
    script,               \* scripted scenario: the frames the reads return
    pos,                  \* scripted scenario: number of steps made
    first_boundary,       \* scripted scenario: first step that returned true
    open_count,           \* start_observer calls minus kill_observer calls
    exit_code,            \* status of sys.exit, -1 while the process runs
    exit_cause,           \* what made the process exit, "none" while it runs
    atexit_registered,    \* atexit.register calls made, in order
    atexit_run,           \* number of exit handlers that have run
    net_log,              \* register/enable/disable/deregister requests sent
    connected             \* connect_to_server returned

vars == <<enabled, stream, silence_start, did_speak, sentence_buf,
          is_sentence_complete, pc, clock, frame, last_op, handed_off,
          speech_seen, last_kind, non_dropped, script, pos, first_boundary,
          open_count, exit_code, exit_cause, atexit_registered, atexit_run,
          net_log, connected>>

\* a request sent to the server and whether it succeeded
Request(name, ok) == [req |-> name, ok |-> ok]

\* the state of the process around the main loop
procvars == <<exit_code, exit_cause, atexit_registered, atexit_run, net_log,
              connected>>

\* ---------- Frames ----------
SpeechFrame == [len |-> FRAME_BYTES, kind |-> "speech"]
SilenceFrame == [len |-> FRAME_BYTES, kind |-> "nonspeech"]
NoFrame == [len |-> 0, kind |-> "none"]

\* what stream.read can return: a full frame, a short one, a long one
ReadLengths == {FRAME_BYTES - 2, FRAME_BYTES, FRAME_BYTES + 2}
Frames == [len : ReadLengths, kind : {"speech", "nonspeech", "malformed"}]

\* milliseconds between two consecutive steps: the blocking read of one
\* frame, or the read delayed by the HTTP calls of the loop
Advance == {FRAME_MS, 10 * FRAME_MS}

RECURSIVE BufLen(_)
\* len(sentence_buf) in bytes
BufLen(buf) == IF buf = <<>> THEN 0 ELSE Head(buf).len + BufLen(Tail(buf))

\* ---------- whisper_live.py ----------

\* the observer state the step and the reset work on
Observer == [silence_start |-> silence_start, did_speak |-> did_speak]

\* mutant: the reset forgets to clear silence_start
refresh_observer_KeepStart(st) == [st EXCEPT !.did_speak = FALSE]

refresh_observer(st) == [st EXCEPT !.silence_start = -1, !.did_speak = FALSE]

\* the state start_observer leaves (lines 58-60)
StartState == [enabled |-> TRUE, silence_start |-> -1, did_speak |-> FALSE]

\* mutant: only a short read counts as incomplete
IsIncomplete_ShortOnly(f) == f.len < FRAME_BYTES

\* line 95: the read did not return exactly one frame
IsIncomplete(f) == f.len # FRAME_BYTES

\* line 100: vad.is_speech(frame, SAMPLE_RATE): "true", "false" or "raise"
vad_is_speech(f) ==
    CASE f.kind = "speech" -> "true"
      [] f.kind = "nonspeech" -> "false"
      [] OTHER -> "raise"

\* mutant: the frame is appended before the classifier is called
OnVadError_Append(buf, f) == Append(buf, f)

\* lines 101-103: the buffer returned when the classifier raises
OnVadError(buf, f) == buf

\* mutant: the frame overwrites the last one instead of being appended
Extend_Overwrite(buf, f) ==
    IF buf = <<>> THEN <<f>> ELSE [buf EXCEPT ![Len(buf)] = f]

\* line 105: sentence_buf.extend(frame)
Extend(buf, f) == Append(buf, f)

\* mutant: the silence is measured from time zero, not from silence_start
SilenceElapsed_Abs(now, start) == now >= MAX_SILENCE_BREAK

\* mutant: the threshold is halved
SilenceElapsed_Half(now, start) == 2 * (now - start) >= MAX_SILENCE_BREAK

\* mutant: strict comparison with the threshold
SilenceElapsed_Strict(now, start) == now - start > MAX_SILENCE_BREAK

\* line 127: the silence lasted long enough
SilenceElapsed(now, start) == now - start >= MAX_SILENCE_BREAK

\* mutant: the silence timer starts without the did_speak gate
UpdateTiming_NoGate(is_speech, now, st) ==
    IF is_speech
    THEN [silence_start |-> -1, did_speak |-> TRUE, boundary |-> FALSE]
    ELSE IF st.silence_start = -1
         THEN [silence_start |-> now, did_speak |-> st.did_speak,
               boundary |-> FALSE]
         ELSE IF SilenceElapsed(now, st.silence_start)
              THEN [silence_start |-> refresh_observer(st).silence_start,
                    did_speak |-> refresh_observer(st).did_speak,
                    boundary |-> TRUE]
              ELSE [silence_start |-> st.silence_start,
                    did_speak |-> st.did_speak, boundary |-> FALSE]

\* mutant: a speech frame does not clear the silence timer
UpdateTiming_KeepOnSpeech(is_speech, now, st) ==
    IF is_speech
    THEN [silence_start |-> st.silence_start, did_speak |-> TRUE,
          boundary |-> FALSE]
    ELSE IF st.silence_start = -1
         THEN IF st.did_speak
              THEN [silence_start |-> now, did_speak |-> st.did_speak,
                    boundary |-> FALSE]
              ELSE [silence_start |-> st.silence_start,
                    did_speak |-> st.did_speak, boundary |-> FALSE]
         ELSE IF SilenceElapsed(now, st.silence_start)
              THEN [silence_start |-> refresh_observer(st).silence_start,
                    did_speak |-> refresh_observer(st).did_speak,
                    boundary |-> TRUE]
              ELSE [silence_start |-> st.silence_start,
                    did_speak |-> st.did_speak, boundary |-> FALSE]

\* mutant: the boundary is declared without the reset
UpdateTiming_NoRefresh(is_speech, now, st) ==
    IF is_speech
    THEN [silence_start |-> -1, did_speak |-> TRUE, boundary |-> FALSE]
    ELSE IF st.silence_start = -1
         THEN IF st.did_speak
              THEN [silence_start |-> now, did_speak |-> st.did_speak,
                    boundary |-> FALSE]
              ELSE [silence_start |-> st.silence_start,
                    did_speak |-> st.did_speak, boundary |-> FALSE]
         ELSE [silence_start |-> st.silence_start,
               did_speak |-> st.did_speak,
               boundary |-> SilenceElapsed(now, st.silence_start)]

\* mutant: every non-speech frame below the threshold restarts the timer
UpdateTiming_Restart(is_speech, now, st) ==
    IF is_speech
    THEN [silence_start |-> -1, did_speak |-> TRUE, boundary |-> FALSE]
    ELSE IF st.silence_start = -1
         THEN IF st.did_speak
              THEN [silence_start |-> now, did_speak |-> st.did_speak,
                    boundary |-> FALSE]
              ELSE [silence_start |-> st.silence_start,
                    did_speak |-> st.did_speak, boundary |-> FALSE]
         ELSE IF SilenceElapsed(now, st.silence_start)
              THEN [silence_start |-> refresh_observer(st).silence_start,
                    did_speak |-> refresh_observer(st).did_speak,
                    boundary |-> TRUE]
              ELSE [silence_start |-> now,
                    did_speak |-> st.did_speak, boundary |-> FALSE]

\* lines 119-131: the timing update; boundary is the returned flag
UpdateTiming(is_speech, now, st) ==
    IF is_speech
    THEN [silence_start |-> -1, did_speak |-> TRUE, boundary |-> FALSE]
    ELSE IF st.silence_start = -1
         THEN IF st.did_speak
              THEN [silence_start |-> now, did_speak |-> st.did_speak,
                    boundary |-> FALSE]
              ELSE [silence_start |-> st.silence_start,
                    did_speak |-> st.did_speak, boundary |-> FALSE]
         ELSE IF SilenceElapsed(now, st.silence_start)
              THEN [silence_start |-> refresh_observer(st).silence_start,
                    did_speak |-> refresh_observer(st).did_speak,
                    boundary |-> TRUE]
              ELSE [silence_start |-> st.silence_start,
                    did_speak |-> st.did_speak, boundary |-> FALSE]

\* mutant: a frame the classifier raises on is appended all the same
silent_observer_AppendOnRaise(buf, f, now, st) ==
    IF IsIncomplete(f)
    THEN [buf |-> buf, ret |-> FALSE,
          silence_start |-> st.silence_start, did_speak |-> st.did_speak]
    ELSE IF vad_is_speech(f) = "raise"
    THEN [buf |-> Extend(buf, f), ret |-> FALSE,
          silence_start |-> st.silence_start, did_speak |-> st.did_speak]
    ELSE LET t == UpdateTiming(vad_is_speech(f) = "true", now, st)
         IN [buf |-> Extend(buf, f), ret |-> t.boundary,
             silence_start |-> t.silence_start, did_speak |-> t.did_speak]

\* lines 85-131: one step on buffer buf, reading frame f, the clock showing now
silent_observer(buf, f, now, st) ==
    IF IsIncomplete(f)
    THEN [buf |-> buf, ret |-> FALSE,
          silence_start |-> st.silence_start, did_speak |-> st.did_speak]
    ELSE IF vad_is_speech(f) = "raise"
    THEN [buf |-> OnVadError(buf, f), ret |-> FALSE,
          silence_start |-> st.silence_start, did_speak |-> st.did_speak]
    ELSE LET t == UpdateTiming(vad_is_speech(f) = "true", now, st)
         IN [buf |-> Extend(buf, f), ret |-> t.boundary,
             silence_start |-> t.silence_start, did_speak |-> t.did_speak]

\* the frame is read in full and classified without error
NonDropped(f) == f.len = FRAME_BYTES /\ f.kind \in {"speech", "nonspeech"}

\* mutant: start_observer leaves silence_start and did_speak as they were
start_observer_NoReset ==
    /\ stream' = "open"
    /\ enabled' = TRUE
    /\ open_count' = open_count + 1
    /\ UNCHANGED <<silence_start, did_speak>>

\* lines 43-60
start_observer ==
    /\ stream' = "open"
    /\ silence_start' = StartState.silence_start
    /\ did_speak' = StartState.did_speak
    /\ enabled' = StartState.enabled
    /\ open_count' = open_count + 1

\* lines 68-75
kill_observer ==
    /\ stream' = "closed"
    /\ enabled' = FALSE
    /\ open_count' = open_count - 1
    /\ UNCHANGED <<silence_start, did_speak>>

\* lines 63-65
is_observer_running == enabled

\* the effect of a step on the observer, the buffer and the observations
ApplyStep(f, now) ==
    LET r == silent_observer(sentence_buf, f, now, Observer)
    IN /\ sentence_buf' = r.buf
       /\ is_sentence_complete' = r.ret
       /\ silence_start' = r.silence_start
       /\ did_speak' = r.did_speak
       /\ frame' = f
       /\ clock' = now
       /\ last_op' = "step"
       /\ speech_seen' = IF r.ret THEN FALSE
                         ELSE IF NonDropped(f) /\ f.kind = "speech" THEN TRUE
                         ELSE speech_seen
       /\ last_kind' = IF NonDropped(f) THEN f.kind ELSE last_kind
       /\ non_dropped' = IF NonDropped(f) THEN non_dropped + 1
                         ELSE non_dropped

\* ---------- mira.py, the main loop ----------

\* mutant: the observer is stopped but the partial buffer is kept
PollDisabled_KeepBuffer ==
    /\ pc = "loop"
    /\ IF is_observer_running
       THEN /\ kill_observer
            /\ UNCHANGED <<sentence_buf, handed_off, non_dropped>>
       ELSE UNCHANGED <<enabled, stream, silence_start, did_speak,
                        sentence_buf, handed_off, non_dropped, open_count>>
    /\ pc' = "loop"
    /\ last_op' = "poll_disabled"
    /\ UNCHANGED <<is_sentence_complete, clock, frame, speech_seen, last_kind,
                   script, pos, first_boundary>>
    /\ UNCHANGED procvars

\* lines 101-108: the poll says the assistant is disabled
PollDisabled ==
    /\ pc = "loop"
    /\ IF is_observer_running
       THEN /\ kill_observer
            /\ sentence_buf' = <<>>
            /\ handed_off' = FALSE
            /\ non_dropped' = 0
       ELSE UNCHANGED <<enabled, stream, silence_start, did_speak,
                        sentence_buf, handed_off, non_dropped, open_count>>
    /\ pc' = "loop"
    /\ last_op' = "poll_disabled"
    /\ UNCHANGED <<is_sentence_complete, clock, frame, speech_seen, last_kind,
                   script, pos, first_boundary>>
    /\ UNCHANGED procvars

\* mutant: the observer is started without asking whether it is running
PollEnabled_AlwaysStart ==
    /\ pc = "loop"
    /\ start_observer
    /\ sentence_buf' = <<>>
    /\ handed_off' = FALSE
    /\ non_dropped' = 0
    /\ speech_seen' = FALSE
    /\ last_kind' = "none"
    /\ pc' = "step"
    /\ last_op' = "poll_enabled"
    /\ UNCHANGED <<is_sentence_complete, clock, frame, script, pos,
                   first_boundary>>
    /\ UNCHANGED procvars

\* lines 101-112: the poll does not say disabled; the observer is started
\* when it is not running
PollEnabled ==
    /\ pc = "loop"
    /\ IF ~is_observer_running
       THEN /\ start_observer
            /\ sentence_buf' = <<>>
            /\ handed_off' = FALSE
            /\ non_dropped' = 0
            /\ speech_seen' = FALSE
            /\ last_kind' = "none"
       ELSE UNCHANGED <<enabled, stream, silence_start, did_speak,
                        sentence_buf, handed_off, non_dropped, speech_seen,
                        last_kind, open_count>>
    /\ pc' = "step"
    /\ last_op' = "poll_enabled"
    /\ UNCHANGED <<is_sentence_complete, clock, frame, script, pos,
                   first_boundary>>
    /\ UNCHANGED procvars

\* lines 114-117: one call of silent_observer
Step ==
    /\ pc = "step"
    /\ Len(sentence_buf) < MaxFrames
    /\ \E f \in Frames, d \in Advance :
          /\ clock + d <= MaxClock
          /\ ApplyStep(f, clock + d)
    /\ pc' = IF is_sentence_complete' THEN "post" ELSE "loop"
    /\ UNCHANGED <<enabled, stream, handed_off, script, pos, first_boundary,
                   open_count>>
    /\ UNCHANGED procvars

\* line 119 and lines 66-78: the buffer is posted to /interactions/register
Post ==
    /\ pc = "post"
    /\ handed_off' = TRUE
    /\ pc' = "loop"
    /\ last_op' = "post"
    /\ UNCHANGED <<enabled, stream, silence_start, did_speak, sentence_buf,
                   is_sentence_complete, clock, frame, speech_seen, last_kind,
                   non_dropped, script, pos, first_boundary, open_count>>
    /\ UNCHANGED procvars

\* lines 87-99: the state when the loop is entered, the exit handlers
\* registered, the client registered and the enable request sent
Init ==
    /\ enabled = FALSE
    /\ stream = "none"
    /\ silence_start = -1
    /\ did_speak = FALSE
    /\ sentence_buf = <<>>
    /\ is_sentence_complete = FALSE
    /\ pc = "loop"
    /\ clock = 0
    /\ frame = NoFrame
    /\ last_op = "init"
    /\ handed_off = FALSE
    /\ speech_seen = FALSE
    /\ last_kind = "none"
    /\ non_dropped = 0
    /\ script = <<>>
    /\ pos = 0
    /\ first_boundary = 0
    /\ open_count = 0
    /\ exit_code = -1
    /\ exit_cause = "none"
    /\ atexit_registered = <<"disable_mira", "disconnect_from_server">>
    /\ atexit_run = 0
    /\ net_log = <<Request("register", TRUE), Request("enable", TRUE)>>
    /\ connected = TRUE

Next == PollDisabled \/ PollEnabled \/ Step \/ Post

Spec == Init /\ [][Next]_vars

\* ---------- Scripted scenarios: a sequence of step calls ----------

\* n copies of frame f
Repeat(f, n) == [i \in 1..n |-> f]

\* a speech frames, b non-speech frames, c speech frames, d non-speech frames
Scenario(a, b, c, d) ==
    Repeat(SpeechFrame, a) \o Repeat(SilenceFrame, b)
        \o Repeat(SpeechFrame, c) \o Repeat(SilenceFrame, d)

Scenarios ==
    {Scenario(a, b, c, d) : a \in 0..1, b \in 0..MaxSilenceRun,
                            c \in 0..1, d \in 0..MaxSilenceRun}

\* the state right after start_observer (lines 43-60) with an empty buffer
\* (mira.py:111-112), the reads to come fixed by the script
ScenarioInit ==
    /\ enabled = StartState.enabled
    /\ stream = "open"
    /\ silence_start = StartState.silence_start
    /\ did_speak = StartState.did_speak
    /\ sentence_buf = <<>>
    /\ is_sentence_complete = FALSE
    /\ pc = "step"
    /\ clock = 0
    /\ frame = NoFrame
    /\ last_op = "poll_enabled"
    /\ handed_off = FALSE
    /\ speech_seen = FALSE
    /\ last_kind = "none"
    /\ non_dropped = 0
    /\ script \in Scenarios
    /\ pos = 0
    /\ first_boundary = 0
    /\ open_count = 1
    /\ exit_code = -1
    /\ exit_cause = "none"
    /\ atexit_registered = <<"disable_mira", "disconnect_from_server">>
    /\ atexit_run = 0
    /\ net_log = <<Request("register", TRUE), Request("enable", TRUE)>>
    /\ connected = TRUE

\* one call of silent_observer on the buffer the previous call returned; the
\* read returns the next frame of the script, FRAME_MS after the previous one
ScenarioStep ==
    /\ pc = "step"
    /\ stream = "open"
    /\ pos < Len(script)
    /\ ApplyStep(script[pos + 1], clock + FRAME_MS)
    /\ pos' = pos + 1
    /\ first_boundary' = IF first_boundary = 0 /\ is_sentence_complete'
                         THEN pos + 1 ELSE first_boundary
    /\ UNCHANGED <<enabled, stream, pc, handed_off, script, open_count>>
    /\ UNCHANGED procvars

ScenarioNext == ScenarioStep

ScenarioSpec == ScenarioInit /\ [][ScenarioNext]_vars

\* ---------- The main loop under fair scheduling ----------

\* the clock never passes this: a silence that follows speech is let run
\* past MaxClock until it reaches the threshold
HardClock == MaxClock + 3 * MAX_SILENCE_BREAK

\* the reads of the fair loop: speech, non-speech, a short read, a frame the
\* classifier raises on
LiveFrames ==
    {SpeechFrame, SilenceFrame, [len |-> FRAME_BYTES - 2, kind |-> "speech"],
     [len |-> FRAME_BYTES, kind |-> "malformed"]}

\* mira.py:114-117: one call of silent_observer; a full non-speech frame
\* after speech is read whatever the bounds, any other frame within them
LiveStep ==
    /\ pc = "step"
    /\ \E f \in LiveFrames, d \in Advance :
          /\ IF did_speak /\ f = SilenceFrame
             THEN clock + d <= HardClock
             ELSE /\ clock + d <= MaxClock \div 2
                  /\ Len(sentence_buf) < MaxFrames
          /\ ApplyStep(f, clock + d)
    /\ pc' = IF is_sentence_complete' THEN "post" ELSE "loop"
    /\ UNCHANGED <<enabled, stream, handed_off, script, pos, first_boundary,
                   open_count>>
    /\ UNCHANGED procvars

LiveNext == PollDisabled \/ PollEnabled \/ LiveStep \/ Post

\* the loop of mira.py:100-119 is a single thread that never waits on
\* anything but the blocking calls, which return
LiveSpec == Init /\ [][LiveNext]_vars /\ WF_vars(LiveNext)

\* ---------- mira.py, the process around the main loop ----------

\* lines 23-28 and 32-34: the exit status of connect_to_server on a failure
ConnectFailureCode == 1

\* line 84: the exit status of the signal handler
InterruptCode == 0

\* lines 124-126: the exit status on a runtime error in the loop
RuntimeErrorCode == 1

\* sys.exit(code): the exit handlers run next
SysExit(code, cause) ==
    /\ exit_code' = code
    /\ exit_cause' = cause
    /\ pc' = "exit_handlers"

\* mutant: the handlers run in the order of their registration
NextExitHandler_Fifo(registered, run) == registered[run + 1]

\* atexit: the handlers run in reverse order of registration
NextExitHandler(registered, run) == registered[Len(registered) - run]

\* lines 37-63: the request an exit handler sends
HandlerRequest(handler) ==
    IF handler = "disable_mira" THEN "disable" ELSE "deregister"

\* the observer, the buffer and the observations of the loop
loopvars == <<enabled, stream, silence_start, did_speak, sentence_buf,
              is_sentence_complete, clock, frame, last_op, handed_off,
              speech_seen, last_kind, non_dropped, script, pos,
              first_boundary, open_count>>

\* lines 89-91: signal.signal(SIGINT, signal_handler)
InstallSignalHandler ==
    /\ pc = "install"
    /\ pc' = "reg_disable"
    /\ UNCHANGED loopvars
    /\ UNCHANGED procvars

\* line 93: atexit.register(disable_mira)
RegisterDisable ==
    /\ pc = "reg_disable"
    /\ atexit_registered' = Append(atexit_registered, "disable_mira")
    /\ pc' = "reg_disconnect"
    /\ UNCHANGED loopvars
    /\ UNCHANGED <<exit_code, exit_cause, atexit_run, net_log, connected>>

\* line 94: atexit.register(disconnect_from_server)
RegisterDisconnect ==
    /\ pc = "reg_disconnect"
    /\ atexit_registered' = Append(atexit_registered, "disconnect_from_server")
    /\ pc' = "connect"
    /\ UNCHANGED loopvars
    /\ UNCHANGED <<exit_code, exit_cause, atexit_run, net_log, connected>>

\* mutant: the version mismatch exits with sys.exit() and no status
ConnectToServer_ExitZero ==
    /\ pc = "connect"
    /\ \E outcome \in {"ok", "request_error", "version_mismatch"} :
          /\ net_log' = Append(net_log,
                               Request("register", outcome # "request_error"))
          /\ IF outcome = "ok"
             THEN /\ connected' = TRUE
                  /\ pc' = "enable"
                  /\ UNCHANGED <<exit_code, exit_cause>>
             ELSE /\ SysExit(IF outcome = "version_mismatch" THEN 0
                             ELSE ConnectFailureCode,
                             IF outcome = "version_mismatch" THEN "version"
                             ELSE "registration")
                  /\ UNCHANGED connected
    /\ UNCHANGED loopvars
    /\ UNCHANGED <<atexit_registered, atexit_run>>

\* lines 18-34 and 96: connect_to_server; the request fails (error or bad
\* status), or the version differs, or the client is registered
ConnectToServer ==
    /\ pc = "connect"
    /\ \E outcome \in {"ok", "request_error", "version_mismatch"} :
          /\ net_log' = Append(net_log,
                               Request("register", outcome # "request_error"))
          /\ IF outcome = "ok"
             THEN /\ connected' = TRUE
                  /\ pc' = "enable"
                  /\ UNCHANGED <<exit_code, exit_cause>>
             ELSE /\ SysExit(ConnectFailureCode,
                             IF outcome = "version_mismatch" THEN "version"
                             ELSE "registration")
                  /\ UNCHANGED connected
    /\ UNCHANGED loopvars
    /\ UNCHANGED <<atexit_registered, atexit_run>>

\* lines 48-54 and 97: enable_mira; a failure is printed
EnableMira ==
    /\ pc = "enable"
    /\ \E ok \in BOOLEAN : net_log' = Append(net_log, Request("enable", ok))
    /\ pc' = "loop"
    /\ UNCHANGED loopvars
    /\ UNCHANGED <<exit_code, exit_cause, atexit_registered, atexit_run,
                   connected>>

\* lines 114-117: one call of silent_observer
MainStep ==
    /\ pc = "step"
    /\ Len(sentence_buf) < MaxFrames
    /\ \E f \in LiveFrames, d \in Advance :
          /\ clock + d <= (2 * MaxClock) \div 3
          /\ ApplyStep(f, clock + d)
    /\ pc' = IF is_sentence_complete' THEN "post" ELSE "loop"
    /\ UNCHANGED <<enabled, stream, handed_off, script, pos, first_boundary,
                   open_count>>
    /\ UNCHANGED procvars

\* lines 101 and 124-126: the status poll raises (request error, body that
\* is not JSON); the loop's except Exception exits
PollFault ==
    /\ pc = "loop"
    /\ SysExit(RuntimeErrorCode, "poll_fault")
    /\ last_op' = "poll_fault"
    /\ UNCHANGED <<enabled, stream, silence_start, did_speak, sentence_buf,
                   is_sentence_complete, clock, frame, handed_off,
                   speech_seen, last_kind, non_dropped, script, pos,
                   first_boundary, open_count>>
    /\ UNCHANGED <<atexit_registered, atexit_run, net_log, connected>>

\* lines 110-111, whisper_live.py:49-56 and lines 124-126: the poll does not
\* say disabled, the device cannot be opened, start_observer raises before it
\* sets enabled; the loop's except Exception exits
StartFailure ==
    /\ pc = "loop"
    /\ ~is_observer_running
    /\ SysExit(RuntimeErrorCode, "device_unavailable")
    /\ last_op' = "start_failed"
    /\ UNCHANGED <<enabled, stream, silence_start, did_speak, sentence_buf,
                   is_sentence_complete, clock, frame, handed_off,
                   speech_seen, last_kind, non_dropped, script, pos,
                   first_boundary, open_count>>
    /\ UNCHANGED <<atexit_registered, atexit_run, net_log, connected>>

\* mutant: the signal handler ends the process at once, as os._exit does
Interrupt_HardExit ==
    /\ pc \in {"reg_disable", "reg_disconnect", "connect", "enable", "loop",
               "step", "post"}
    /\ exit_code' = InterruptCode
    /\ exit_cause' = "interrupt"
    /\ pc' = "exited"
    /\ UNCHANGED loopvars
    /\ UNCHANGED <<atexit_registered, atexit_run, net_log, connected>>

\* lines 81-84: SIGINT arrives once the handler is installed and before the
\* process exits; signal_handler calls sys.exit(0), which no except clause
\* of the program catches
Interrupt ==
    /\ pc \in {"reg_disable", "reg_disconnect", "connect", "enable", "loop",
               "step", "post"}
    /\ SysExit(InterruptCode, "interrupt")
    /\ UNCHANGED loopvars
    /\ UNCHANGED <<atexit_registered, atexit_run, net_log, connected>>

\* lines 37-63: the next exit handler runs and sends its request; a failure
\* is printed
RunExitHandler ==
    /\ pc = "exit_handlers"
    /\ atexit_run < Len(atexit_registered)
    /\ \E ok \in BOOLEAN :
          net_log' = Append(net_log,
              Request(HandlerRequest(
                          NextExitHandler(atexit_registered, atexit_run)), ok))
    /\ atexit_run' = atexit_run + 1
    /\ UNCHANGED pc
    /\ UNCHANGED loopvars
    /\ UNCHANGED <<exit_code, exit_cause, atexit_registered, connected>>

\* the handlers have run, the process ends with exit_code
ProcessExit ==
    /\ pc = "exit_handlers"
    /\ atexit_run = Len(atexit_registered)
    /\ pc' = "exited"
    /\ UNCHANGED loopvars
    /\ UNCHANGED procvars

\* line 87: the process starts
MainInit ==
    /\ enabled = FALSE
    /\ stream = "none"
    /\ silence_start = -1
    /\ did_speak = FALSE
    /\ sentence_buf = <<>>
    /\ is_sentence_complete = FALSE
    /\ pc = "install"
    /\ clock = 0
    /\ frame = NoFrame
    /\ last_op = "init"
    /\ handed_off = FALSE
    /\ speech_seen = FALSE
    /\ last_kind = "none"
    /\ non_dropped = 0
    /\ script = <<>>
    /\ pos = 0
    /\ first_boundary = 0
    /\ open_count = 0
    /\ exit_code = -1
    /\ exit_cause = "none"
    /\ atexit_registered = <<>>
    /\ atexit_run = 0
    /\ net_log = <<>>
    /\ connected = FALSE

MainNext ==
    \/ InstallSignalHandler
    \/ RegisterDisable
    \/ RegisterDisconnect
    \/ ConnectToServer
    \/ EnableMira
    \/ PollDisabled
    \/ PollEnabled
    \/ MainStep
    \/ Post
    \/ PollFault
    \/ StartFailure
    \/ Interrupt
    \/ RunExitHandler
    \/ ProcessExit

MainSpec == MainInit /\ [][MainNext]_vars

\* ---------- Properties ----------

\* the step just made read a full frame the classifier raised on
ClassifierRaised ==
    last_op' = "step" /\ frame'.len = FRAME_BYTES /\ frame'.kind = "malformed"

\* C1: a step returns boundaryReached = true only if a speech frame was
\* classified since the last start or reset; without any speech frame no
\* step ever returns true.
C1_BoundaryOnlyAfterSpeech ==
    [][(last_op' = "step" /\ is_sentence_complete') => speech_seen]_vars

C1_Witness ==
    /\ last_op = "step"
    /\ is_sentence_complete
    /\ sentence_buf[1].kind = "speech"

\* C2 as stated: with 30 ms between reads, 1 speech frame and 20 non-speech
\* frames, the 21st step is the first to return true, the buffer holding 21
\* frames.
C2_Original ==
    (script = Scenario(1, 20, 0, 0) /\ pos = 21)
        => /\ is_sentence_complete
           /\ first_boundary = 21
           /\ Len(sentence_buf) = 21

\* C2 amended: with 30 ms between reads, 1 speech frame and 20 non-speech
\* frames, no step returns true; with 1 speech frame and 21 non-speech frames
\* the 22nd step is the first to return true, and the returned buffer holds
\* exactly 22 frames.
C2_BoundaryOnStep22 ==
    /\ script = Scenario(1, 20, 0, 0) => first_boundary = 0
    /\ (script = Scenario(1, 21, 0, 0) /\ pos < 22) => first_boundary = 0
    /\ (script = Scenario(1, 21, 0, 0) /\ pos = 22)
          => /\ is_sentence_complete
             /\ first_boundary = 22
             /\ Len(sentence_buf) = 22
             /\ BufLen(sentence_buf) = 22 * FRAME_BYTES

C2_Witness ==
    script = Scenario(1, 21, 0, 0) /\ pos = 22 /\ is_sentence_complete

\* C3 as stated: for 1 speech, 15 non-speech, 1 speech, 20 non-speech frames
\* no step before the 37th returns true and the 37th does.
C3_Original ==
    /\ (script = Scenario(1, 15, 1, 20) /\ pos < 37) => first_boundary = 0
    /\ (script = Scenario(1, 15, 1, 20) /\ pos = 37)
          => (is_sentence_complete /\ first_boundary = 37)

\* C3 amended: for 1 speech, 15 non-speech, 1 speech, 20 non-speech frames no
\* step returns true; with one more non-speech frame no step before the 38th
\* returns true and the 38th does. The 15 non-speech frames before the
\* interrupting speech frame contribute nothing: that frame unsets the timer,
\* which restarts at the next non-speech frame.
C3_BoundaryOnStep38 ==
    /\ script = Scenario(1, 15, 1, 20) => first_boundary = 0
    /\ (script = Scenario(1, 15, 1, 21) /\ pos < 38) => first_boundary = 0
    /\ (script = Scenario(1, 15, 1, 21) /\ pos = 17) => silence_start = -1
    /\ (script = Scenario(1, 15, 1, 21) /\ pos = 18)
          => silence_start = 18 * FRAME_MS
    /\ (script = Scenario(1, 15, 1, 21) /\ pos = 38)
          => (is_sentence_complete /\ first_boundary = 38)

C3_Witness ==
    script = Scenario(1, 15, 1, 21) /\ pos = 38 /\ first_boundary = 38

\* C4: after a boundary the buffer is handed off and a fresh empty buffer
\* replaces it: the buffer passed to the step after a post is empty.
C4_FreshBufferAfterPost ==
    (pc = "step" /\ handed_off) => sentence_buf = <<>>

\* C5: the buffer length after N non-dropped frames is N * FRAME_BYTES: a
\* non-dropped step appends its frame at the end, a dropped one adds
\* nothing, and no step overwrites or removes earlier frames.
C5_BufferGrowth ==
    [][last_op' = "step"
         => /\ BufLen(sentence_buf') = non_dropped' * FRAME_BYTES
            /\ sentence_buf' = IF NonDropped(frame')
                               THEN Append(sentence_buf, frame')
                               ELSE sentence_buf]_vars

C5_Witness ==
    /\ last_op = "step"
    /\ ~NonDropped(frame)
    /\ non_dropped >= 2
    /\ BufLen(sentence_buf) = non_dropped * FRAME_BYTES

\* C6: silence_start is set only if did_speak is true and the latest
\* non-dropped frame was non-speech; after a step that classifies its frame
\* as speech silence_start is unset and did_speak is true.
C6_SilenceStartInvariant ==
    /\ silence_start # -1 => (did_speak /\ last_kind = "nonspeech")
    /\ (last_op = "step" /\ NonDropped(frame) /\ frame.kind = "speech")
          => (silence_start = -1 /\ did_speak)

C6_Witness ==
    /\ last_op = "step"
    /\ NonDropped(frame) /\ frame.kind = "speech"
    /\ Len(sentence_buf) >= 3
    /\ sentence_buf[Len(sentence_buf) - 1].kind = "nonspeech"
    /\ sentence_buf[Len(sentence_buf) - 2].kind = "nonspeech"

\* C7: a step whose read returns fewer or more bytes than FRAME_BYTES returns
\* false and leaves the buffer, did_speak, silence_start and enabled as they
\* were.
C7_IncompleteReadDropped ==
    [][(last_op' = "step" /\ frame'.len # FRAME_BYTES)
         => /\ ~is_sentence_complete'
            /\ UNCHANGED <<sentence_buf, did_speak, silence_start,
                           enabled>>]_vars

C7_Witness ==
    /\ last_op = "step"
    /\ frame.len > FRAME_BYTES
    /\ silence_start # -1
    /\ sentence_buf # <<>>

\* C8: a step in which the classifier raises on a full frame returns false
\* with the buffer, did_speak and silence_start unchanged, and the loop goes
\* on.
C8_ClassifierFaultDropped ==
    [][ClassifierRaised
         => /\ ~is_sentence_complete'
            /\ UNCHANGED <<sentence_buf, did_speak, silence_start>>
            /\ pc' = "loop"]_vars

C8_Witness ==
    /\ last_op = "step"
    /\ frame = [len |-> FRAME_BYTES, kind |-> "malformed"]
    /\ silence_start # -1
    /\ pc = "loop"

\* C9 as stated: a step in which the classifier raises on a full frame
\* extends the buffer by FRAME_BYTES bytes, did_speak and silence_start
\* unchanged.
C9_Original ==
    [][ClassifierRaised
         => /\ BufLen(sentence_buf') = BufLen(sentence_buf) + FRAME_BYTES
            /\ UNCHANGED <<did_speak, silence_start>>]_vars

\* C9 amended: a step in which the classifier raises on a full frame does
\* not append the frame: the buffer keeps its length, did_speak and
\* silence_start are unchanged, and the loop goes on.
C9_FaultFrameNotAppended ==
    [][ClassifierRaised
         => /\ BufLen(sentence_buf') = BufLen(sentence_buf)
            /\ UNCHANGED <<did_speak, silence_start>>
            /\ ~is_sentence_complete']_vars

C9_Witness ==
    /\ last_op = "step"
    /\ frame = [len |-> FRAME_BYTES, kind |-> "malformed"]
    /\ did_speak
    /\ BufLen(sentence_buf) = 2 * FRAME_BYTES

\* C10: right after a step that returns true the observer state equals the
\* state right after start_observer, and a reset applied to it changes
\* nothing.
C10_BoundaryStateIsStartState ==
    (last_op = "step" /\ is_sentence_complete)
        => /\ [enabled |-> enabled, silence_start |-> silence_start,
               did_speak |-> did_speak] = StartState
           /\ refresh_observer(Observer) = Observer

C10_Witness ==
    /\ last_op = "step"
    /\ is_sentence_complete
    /\ pc = "post"
    /\ non_dropped = 4

RECURSIVE TrailingNonSpeech(_)
\* number of consecutive non-speech frames the buffer ends with
TrailingNonSpeech(buf) ==
    IF buf = <<>> \/ buf[Len(buf)].kind # "nonspeech" THEN 0
    ELSE 1 + TrailingNonSpeech(SubSeq(buf, 1, Len(buf) - 1))

\* the step just made returned boundaryReached = true
BoundaryStep == last_op' = "step" /\ is_sentence_complete'

\* C11: every sentence buffer the loop posts contains at least one frame
\* that was classified as speech.
C11_PostedHasSpeech ==
    pc = "post" => \E i \in DOMAIN sentence_buf : sentence_buf[i].kind = "speech"

C11_Witness ==
    /\ pc = "post"
    /\ sentence_buf[1].kind = "nonspeech"
    /\ sentence_buf[2].kind = "speech"

\* C15: start_observer is called only when the observer is not running and
\* kill_observer only when it is, so the calls alternate beginning with a
\* start; a step runs only while the observer runs with the device open.
C15_StartStopAlternate ==
    /\ open_count \in {0, 1}
    /\ (open_count = 1) <=> is_observer_running
    /\ is_observer_running <=> (stream = "open")
    /\ last_op = "step" => (is_observer_running /\ stream = "open")

C15_Witness ==
    /\ last_op = "poll_enabled"
    /\ open_count = 1
    /\ clock > 0
    /\ last_kind = "none"

C17_PollDecides ==
    [][/\ last_op' = "poll_disabled"
          => /\ UNCHANGED <<frame, clock, is_sentence_complete>>
             /\ pc' = "loop"
             /\ ~is_observer_running'
             /\ is_observer_running
                   => (stream' = "closed" /\ sentence_buf' = <<>>)
       /\ last_op' = "poll_enabled"
          => /\ is_observer_running' /\ stream' = "open"
             /\ pc' = "step"
             /\ ~is_observer_running
                   => /\ sentence_buf' = <<>>
                      /\ ~did_speak'
                      /\ silence_start' = -1]_vars

C17_Witness ==
    /\ last_op = "poll_disabled"
    /\ stream = "closed"
    /\ sentence_buf = <<>>
    /\ did_speak
    /\ silence_start # -1

\* C18 as stated: whenever a step returns true the buffer ends with a run of
\* non-speech frames whose total duration, frames times 30 ms, is at least
\* the 0.6 s threshold.
C18_Original ==
    (last_op = "step" /\ is_sentence_complete)
        => TrailingNonSpeech(sentence_buf) * FRAME_MS >= MAX_SILENCE_BREAK

\* C18 amended: the threshold is measured on the clock, so the time that
\* passes during dropped steps and between steps counts: whenever a step
\* returns true the clock shows at least 0.6 s more than silence_start, and
\* the buffer ends with at least two consecutive non-speech frames, whose
\* total duration may be below the threshold.
C18_ClockMeasuresSilence ==
    [][BoundaryStep
         => /\ silence_start # -1
            /\ clock' - silence_start >= MAX_SILENCE_BREAK
            /\ TrailingNonSpeech(sentence_buf') >= 2]_vars

C18_Witness ==
    /\ last_op = "step"
    /\ is_sentence_complete
    /\ TrailingNonSpeech(sentence_buf) = 2
    /\ non_dropped = 3

\* the observer was stopped, or the last read was not a full non-speech frame
SilenceBroken ==
    \/ last_op = "poll_disabled"
    \/ last_op = "step" /\ ~(NonDropped(frame) /\ frame.kind = "nonspeech")

\* C19: once a frame was classified as speech, if from then on the observer
\* stays running and every read returns a full non-speech frame, the clock
\* advancing with each read, a later step returns true and the buffer is
\* posted.
C19_SilenceAfterSpeechIsPosted ==
    did_speak ~> (last_op = "post" \/ SilenceBroken)

C19_Witness ==
    /\ last_op = "post"
    /\ clock > MaxClock
    /\ Len(sentence_buf) > MaxFrames

\* the disable and deregister requests of the log, in the order sent
ExitRequests ==
    SelectSeq(net_log, LAMBDA r : r.req \in {"disable", "deregister"})

\* the names of the requests of the log, in the order sent
RequestNames == [i \in DOMAIN net_log |-> net_log[i].req]

\* C12: apart from an interrupt the process ends only because the device
\* cannot be opened or because registration failed or the version differs;
\* no network fault after registration ends the process.
C12_OnlyAcquisitionOrRegistrationExits ==
    exit_cause \in {"none", "interrupt", "device_unavailable", "registration",
                    "version"}

\* C13: an interrupt received once the signal handler and the exit handlers
\* are installed ends the process with status 0 after a disable and a
\* deregister request were attempted; a runtime error in the main loop ends
\* it with a non-zero status.
C13_InterruptShutsDownOrderly ==
    /\ (pc = "exited" /\ exit_cause = "interrupt"
            /\ Len(atexit_registered) = 2)
          => /\ exit_code = 0
             /\ \E i \in DOMAIN net_log : net_log[i].req = "disable"
             /\ \E i \in DOMAIN net_log : net_log[i].req = "deregister"
    /\ (pc = "exited" /\ exit_cause \in {"poll_fault", "device_unavailable"})
          => exit_code > 0

C13_Witness ==
    /\ pc = "exited"
    /\ exit_cause = "interrupt"
    /\ is_observer_running
    /\ sentence_buf # <<>>
    /\ RequestNames = <<"register", "enable", "deregister", "disable">>

\* C14: a failed registration or a version mismatch exits with a non-zero
\* status and the loop is never entered: no enable request, no poll, no
\* start_observer, no frame read.
C14_ConnectFailureIsFatal ==
    exit_cause \in {"registration", "version"}
        => /\ exit_code > 0
           /\ ~connected
           /\ \A i \in DOMAIN net_log : net_log[i].req # "enable"
           /\ last_op = "init"
           /\ stream = "none" /\ open_count = 0
           /\ frame = NoFrame
           /\ pc \in {"exit_handlers", "exited"}

C14_Witness ==
    /\ pc = "exited"
    /\ exit_cause = "version"
    /\ exit_code = ConnectFailureCode
    /\ RequestNames = <<"register", "deregister", "disable">>

\* C20: on every exit after both exit handlers are registered exactly one
\* deregister and one disable request are attempted, the deregister first,
\* also when registration never succeeded; a failed request neither stops
\* the other nor changes the exit status.
C20_ExitHandlersRunOnceInReverse ==
    (pc = "exited" /\ Len(atexit_registered) = 2)
        => /\ [i \in DOMAIN ExitRequests |-> ExitRequests[i].req]
                 = <<"deregister", "disable">>
           /\ exit_code = IF exit_cause = "interrupt" THEN InterruptCode
                          ELSE IF exit_cause \in {"registration", "version"}
                          THEN ConnectFailureCode
                          ELSE RuntimeErrorCode

C20_Witness ==
    /\ pc = "exited"
    /\ exit_cause = "registration"
    /\ ~connected
    /\ Len(net_log) = 3
    /\ net_log[2] = Request("deregister", FALSE)
    /\ net_log[3].req = "disable"

====
